---------------------------- MODULE Spec2Model ----------------------------
(***************************************************************************)
(* Model of packages/apply-release-plan/src/version-package.ts:            *)
(*   - versionPackage: rewrites the dependency ranges of one manifest;     *)
(*   - parse: validates and normalises a written changesets config.        *)
(* Strings the code inspects character by character (declared ranges) are  *)
(* sequences of one-character strings; names the code only compares are    *)
(* TLA+ strings.                                                           *)
(***************************************************************************)
EXTENDS Naturals, Sequences, FiniteSets, TLC

VARIABLES
    heap,              \* object id -> manifest object (packageJson objects)
    release,           \* versionPackage argument: newVersion and a reference
    versionsToUpdate,  \* versionPackage argument: sequence of {name, version}
    before,            \* the manifest as it was when versionPackage was called
    result,            \* what versionPackage returned, or that it raised
    pcVersion,         \* "ready" | "done" | "off"
    json,              \* parse argument: the written config
    packages,          \* parse argument: the package graph
    outcome,           \* what parse returned or raised
    pcParse            \* "ready" | "done" | "off"

vars == <<heap, release, versionsToUpdate, before, result, pcVersion,
          json, packages, outcome, pcParse>>

versionVars == <<heap, release, versionsToUpdate, before, result, pcVersion>>
parseVars == <<json, packages, outcome, pcParse>>

(***************************************************************************)
(* Bounds of the model.                                                    *)
(***************************************************************************)
MaxEntries == 2        \* declared dependency entries in a manifest
MaxLinked == 3         \* package names or globs in `linked`, over all groups
MaxIgnore == 2         \* package names or globs in `ignore`
MaxDeps == 2           \* dependencies declared between the packages

(***************************************************************************)
(* String helpers (JavaScript String methods on character sequences).      *)
(***************************************************************************)
StartsWith(s, p) == Len(s) >= Len(p) /\ SubSeq(s, 1, Len(p)) = p

Substr(s, n) == SubSeq(s, n + 1, Len(s))

WORKSPACE == <<"w","o","r","k","s","p","a","c","e",":">>

WorkspacePrefixLen == 10

LINK == <<"l","i","n","k",":">>

FILE == <<"f","i","l","e",":">>

PINNED == {LINK, LINK \o <<".">>, FILE, FILE \o <<".">>}

DEPENDENCY_TYPES ==
    <<"dependencies", "devDependencies", "peerDependencies", "optionalDependencies">>

(***************************************************************************)
(* semver's Range, on the ranges of the model: an optional operator        *)
(* followed by nothing, an X-range identifier, or a full version with      *)
(* one-digit components.  Anything else is not a comparator and Range      *)
(* throws.  `range` is the normalised text; it is empty for the range that *)
(* matches any version.                                                    *)
(***************************************************************************)
Digits == <<"0","1","2","3","4","5","6","7","8","9">>

IsDigit(c) == \E i \in 1..Len(Digits) : Digits[i] = c

IncDigit(c) ==
    IF c = "9" THEN <<"1","0">>
    ELSE <<Digits[(CHOOSE i \in 1..Len(Digits) : Digits[i] = c) + 1]>>

IsFullVersion(s) ==
    /\ Len(s) = 5
    /\ IsDigit(s[1]) /\ s[2] = "." /\ IsDigit(s[3]) /\ s[4] = "." /\ IsDigit(s[5])

IsX(s) == s \in {<<"*">>, <<"x">>, <<"X">>}

LeadingOp(s) ==
    IF StartsWith(s, <<">","=">>) THEN <<">","=">>
    ELSE IF StartsWith(s, <<"<","=">>) THEN <<"<","=">>
    ELSE IF s # <<>> /\ s[1] \in {">", "<", "=", "^", "~"} THEN <<s[1]>>
    ELSE <<>>

CaretUpper(v) ==
    IF v[1] # "0" THEN IncDigit(v[1]) \o <<".","0",".","0">>
    ELSE IF v[3] # "0" THEN <<"0",".">> \o IncDigit(v[3]) \o <<".","0">>
    ELSE <<"0",".","0",".">> \o IncDigit(v[5])

TildeUpper(v) == <<v[1], ".">> \o IncDigit(v[3]) \o <<".","0">>

InvalidRange == [valid |-> FALSE, range |-> <<>>]

SemverRange(s) ==
    LET op == LeadingOp(s)
        rest == Substr(s, Len(op))
    IN  IF s = <<>> THEN [valid |-> TRUE, range |-> <<>>]
        ELSE IF IsX(rest) THEN
            IF op \in {<<">">>, <<"<">>}
            THEN [valid |-> TRUE, range |-> <<"<","0",".","0",".","0">>]
            ELSE [valid |-> TRUE, range |-> <<>>]
        ELSE IF IsFullVersion(rest) THEN
            IF op \in {<<>>, <<"=">>} THEN [valid |-> TRUE, range |-> rest]
            ELSE IF op = <<"^">> THEN
                [valid |-> TRUE,
                 range |-> <<">","=">> \o rest \o <<" ","<">> \o CaretUpper(rest)]
            ELSE IF op = <<"~">> THEN
                [valid |-> TRUE,
                 range |-> <<">","=">> \o rest \o <<" ","<">> \o TildeUpper(rest)]
            ELSE [valid |-> TRUE, range |-> op \o rest]
        ELSE InvalidRange

(***************************************************************************)
(* @changesets/get-version-range-type: the operator prefix of a range.     *)
(***************************************************************************)
getVersionRangeType(versionRange) ==
    IF versionRange = <<>> THEN <<>>
    ELSE IF versionRange[1] \in {"^", "~"} THEN <<versionRange[1]>>
    ELSE IF StartsWith(versionRange, <<">","=">>) THEN <<">","=">>
    ELSE IF StartsWith(versionRange, <<"<","=">>) THEN <<"<","=">>
    ELSE IF versionRange[1] \in {">", "<"} THEN <<versionRange[1]>>
    ELSE <<>>

(***************************************************************************)
(* versionPackage, lines 12-51.                                            *)
(***************************************************************************)
\* A manifest block (packageJson[type]): undefined, or a name -> range map.
NoBlock == [defined |-> FALSE, entries |-> <<>>]

HasEntry(deps, name) == name \in DOMAIN deps.entries

\* `!depCurrentVersion || [...].includes(depCurrentVersion)`: the `continue`.
SkipsEntry(deps, name) ==
    \/ ~HasEntry(deps, name)
    \/ deps.entries[name] = <<>>
    \/ deps.entries[name] \in PINNED

usesWorkspaceRange(declared) == StartsWith(declared, WORKSPACE)

InnerRange(declared) ==
    IF usesWorkspaceRange(declared) THEN Substr(declared, WorkspacePrefixLen)
    ELSE declared

\* newNewRange without line 43: the workspace marker is not put back.
newNewRange_DropsWorkspace(declared, version) ==
    getVersionRangeType(InnerRange(declared)) \o version

\* Lines 41-43: the replacement range.
newNewRange(declared, version) ==
    LET rangeType == getVersionRangeType(InnerRange(declared))
        plain == rangeType \o version
    IN  IF usesWorkspaceRange(declared) THEN WORKSPACE \o plain ELSE plain

\* RewritesEntry without the test of lines 34-40: every parsed range is assigned.
RewritesEntry_Always(declared) == SemverRange(InnerRange(declared)).valid

\* Lines 34-45: whether the entry is assigned (the normalised range is not empty).
RewritesEntry(declared) == SemverRange(InnerRange(declared)).range # <<>>

\* One iteration of the inner loop on one block: the block after it, and
\* whether `new Range` threw.
UpdateEntry(deps, update) ==
    IF SkipsEntry(deps, update.name) THEN [deps |-> deps, raised |-> FALSE]
    ELSE LET declared == deps.entries[update.name]
         IN  IF ~SemverRange(InnerRange(declared)).valid
             THEN [deps |-> deps, raised |-> TRUE]
             ELSE IF RewritesEntry(declared)
             THEN [deps |-> [deps EXCEPT !.entries[update.name] =
                                            newNewRange(declared, update.version)],
                   raised |-> FALSE]
             ELSE [deps |-> deps, raised |-> FALSE]

\* UpdateDeps with `break` for the `continue` of line 29.
RECURSIVE UpdateDeps_StopsAtSkip(_, _, _)
UpdateDeps_StopsAtSkip(deps, updates, i) ==
    IF i > Len(updates) \/ SkipsEntry(deps, updates[i].name)
    THEN [deps |-> deps, raised |-> FALSE]
    ELSE LET step == UpdateEntry(deps, updates[i])
         IN  IF step.raised THEN step
             ELSE UpdateDeps_StopsAtSkip(step.deps, updates, i + 1)

\* The inner loop (lines 27-46) from update i on.
RECURSIVE UpdateDeps(_, _, _)
UpdateDeps(deps, updates, i) ==
    IF i > Len(updates) THEN [deps |-> deps, raised |-> FALSE]
    ELSE LET step == UpdateEntry(deps, updates[i])
         IN  IF step.raised THEN step
             ELSE UpdateDeps(step.deps, updates, i + 1)

\* The outer loop (lines 24-48) from dependency type t on, on manifest pj.
RECURSIVE UpdateTypes(_, _, _)
UpdateTypes(pj, updates, t) ==
    IF t > Len(DEPENDENCY_TYPES) THEN [packageJson |-> pj, raised |-> FALSE]
    ELSE LET type == DEPENDENCY_TYPES[t]
             deps == pj.deps[type]
         IN  IF ~deps.defined THEN UpdateTypes(pj, updates, t + 1)
             ELSE LET loop == UpdateDeps(deps, updates, 1)
                      pj2 == [pj EXCEPT !.deps[type] = loop.deps]
                  IN  IF loop.raised THEN [packageJson |-> pj2, raised |-> TRUE]
                      ELSE UpdateTypes(pj2, updates, t + 1)

\* TargetObject for a rewrite that works on a copy of the manifest.
TargetObject_Copy(h, rel) == "obj2"

\* Lines 20-22: `packageJson` is the caller's object; the assignment is in place.
TargetObject(h, rel) == rel.packageJson

\* The whole call: the heap after it and the value returned (or the raise).
versionPackage(h, rel, updates) ==
    LET obj == TargetObject(h, rel)
        src == h[rel.packageJson]
        withVersion == [src EXCEPT !.version = rel.newVersion]
        loop == UpdateTypes(withVersion, updates, 1)
        h2 == [o \in DOMAIN h \cup {obj} |->
                  IF o = obj THEN loop.packageJson ELSE h[o]]
    IN  [heap |-> h2,
         result |-> IF loop.raised
                    THEN [kind |-> "raised", packageJson |-> "none"]
                    ELSE [kind |-> "returned", packageJson |-> obj]]

(***************************************************************************)
(* Inputs of versionPackage.                                               *)
(***************************************************************************)
DepNames == {"pkg-a", "pkg-b"}

V1 == <<"1",".","0",".","0">>
V2 == <<"2",".","0",".","0">>
V3 == <<"0",".","3",".","1">>

\* The version the release plan gives each package.
PlannedVersion == [n \in DepNames |-> IF n = "pkg-a" THEN V2 ELSE V3]

PlainRanges ==
    { V1, <<"^">> \o V1, <<">","=">> \o V1, <<"*">>, <<>> }

DeclaredRanges ==
    PlainRanges
    \cup { WORKSPACE \o <<"~">> \o V1, WORKSPACE \o <<"*">> }
    \cup { LINK }
    \cup { FILE \o <<".",".","/","b">>, <<"l","a","t","e","s","t">> }

TypeSet == { DEPENDENCY_TYPES[i] : i \in 1..Len(DEPENDENCY_TYPES) }

Slots == TypeSet \X DepNames

\* The manifest whose declared entries are the function `decl` on a set of slots.
ManifestOf(decl) ==
    [version |-> "1.0.0",
     deps |-> [type \in TypeSet |->
        LET names == { n \in DepNames : <<type, n>> \in DOMAIN decl }
        IN  IF names = {} THEN NoBlock
            ELSE [defined |-> TRUE,
                  entries |-> [n \in names |-> decl[<<type, n>>]]]]]

Manifests ==
    { ManifestOf(decl) :
        decl \in UNION { [S -> DeclaredRanges] :
                           S \in { T \in SUBSET Slots : Cardinality(T) <= MaxEntries } } }

Updates == { [name |-> n, version |-> PlannedVersion[n]] : n \in DepNames }

DistinctNames(seq) ==
    \A i, j \in 1..Len(seq) : i # j => seq[i].name # seq[j].name

UpdateSeqs ==
    { seq \in UNION { [1..n -> Updates] : n \in 0..Cardinality(DepNames) } :
        DistinctNames(seq) }

(***************************************************************************)
(* The state machine of versionPackage.                                    *)
(***************************************************************************)
ParseOff ==
    /\ json = "none" /\ packages = "none" /\ outcome = "none" /\ pcParse = "off"

InitVersion ==
    /\ before \in Manifests
    /\ heap = [o \in {"obj1"} |-> before]
    /\ release = [newVersion |-> "1.1.0", packageJson |-> "obj1"]
    /\ versionsToUpdate \in UpdateSeqs
    /\ result = [kind |-> "none", packageJson |-> "none"]
    /\ pcVersion = "ready"
    /\ ParseOff

VersionPackage ==
    /\ pcVersion = "ready"
    /\ LET call == versionPackage(heap, release, versionsToUpdate)
       IN  /\ heap' = call.heap
           /\ result' = call.result
    /\ pcVersion' = "done"
    /\ UNCHANGED <<release, versionsToUpdate, before, parseVars>>

NextVersion == VersionPackage

SpecVersion == InitVersion /\ [][NextVersion]_vars

(***************************************************************************)
(* Vocabulary of the statements about versionPackage.                      *)
(***************************************************************************)
\* The caller's manifest object as it is now.
InputManifest == heap["obj1"]

Declares(pj, type, name) ==
    pj.deps[type].defined /\ name \in DOMAIN pj.deps[type].entries

Named(name) == \E i \in 1..Len(versionsToUpdate) : versionsToUpdate[i].name = name

VersionFor(name) ==
    versionsToUpdate[CHOOSE i \in 1..Len(versionsToUpdate) :
                        versionsToUpdate[i].name = name].version

\* Slots that declare a dependency an update names.
UpdatedSlots ==
    { s \in Slots : Declares(before, s[1], s[2]) /\ Named(s[2]) }

DeclaredAt(pj, s) == pj.deps[s[1]].entries[s[2]]

ProtocolPrefixed(r) == StartsWith(r, LINK) \/ StartsWith(r, FILE)

StripWorkspace(r) == IF StartsWith(r, WORKSPACE) THEN Substr(r, Len(WORKSPACE)) ELSE r

Parseable(r) == SemverRange(StripWorkspace(r)).valid

AnyVersion(r) == Parseable(r) /\ SemverRange(StripWorkspace(r)).range = <<>>

\* The range the rewrite is to leave in a slot that declares r, for version v.
ExpectedRange(r, v) ==
    IF r = <<>> \/ r \in PINNED \/ AnyVersion(r) THEN r
    ELSE (IF StartsWith(r, WORKSPACE) THEN WORKSPACE ELSE <<>>)
            \o getVersionRangeType(StripWorkspace(r)) \o v

SameShape(a, b) ==
    /\ \A type \in TypeSet :
          /\ a.deps[type].defined = b.deps[type].defined
          /\ DOMAIN a.deps[type].entries = DOMAIN b.deps[type].entries

(***************************************************************************)
(* C3 (as claimed): a dependency whose declared range begins with `link:`  *)
(* or `file:` is never rewritten and does not make versionPackage raise:   *)
(* when every other updated range parses, the call returns and every such  *)
(* entry is what it was.                                                   *)
(***************************************************************************)
C3_ProtocolPinnedLeftAlone ==
    (/\ pcVersion = "done"
     /\ \A s \in UpdatedSlots :
           ~ProtocolPrefixed(DeclaredAt(before, s)) =>
               (DeclaredAt(before, s) = <<>> \/ Parseable(DeclaredAt(before, s))))
    => \A s \in UpdatedSlots :
          ProtocolPrefixed(DeclaredAt(before, s)) =>
              /\ result.kind = "returned"
              /\ DeclaredAt(InputManifest, s) = DeclaredAt(before, s)

(***************************************************************************)
(* C4: for a declared range r that parses, is not protocol-pinned and is   *)
(* named by an update with version v, the value versionPackage assigns is  *)
(* classify(r') followed by v, r' being r without a leading `workspace:`,  *)
(* with `workspace:` put back iff r had it; so the range type of the       *)
(* result is that of r', and the result has the marker iff r had it.  An   *)
(* entry the call did not reach (it raised earlier) is as declared.        *)
(***************************************************************************)
C4_Rewritten(s) ==
    LET r == DeclaredAt(before, s)
        v == VersionFor(s[2])
    IN  (IF StartsWith(r, WORKSPACE) THEN WORKSPACE ELSE <<>>)
            \o getVersionRangeType(StripWorkspace(r)) \o v

C4_ShapePreserved ==
    pcVersion = "done" =>
        \A s \in UpdatedSlots :
            LET r == DeclaredAt(before, s)
                out == DeclaredAt(InputManifest, s)
            IN  (r # <<>> /\ ~ProtocolPrefixed(r) /\ Parseable(r)) =>
                  /\ ~AnyVersion(r) /\ result.kind = "returned" => out = C4_Rewritten(s)
                  /\ out # r => out = C4_Rewritten(s)
                  /\ getVersionRangeType(StripWorkspace(out))
                        = getVersionRangeType(StripWorkspace(r))
                  /\ StartsWith(out, WORKSPACE) <=> StartsWith(r, WORKSPACE)

C4_Witness ==
    /\ pcVersion = "done"
    /\ result.kind = "returned"
    /\ \E s \in UpdatedSlots :
          /\ StartsWith(DeclaredAt(before, s), WORKSPACE)
          /\ Parseable(DeclaredAt(before, s))
          /\ ~AnyVersion(DeclaredAt(before, s))
          /\ DeclaredAt(InputManifest, s) # DeclaredAt(before, s)

(***************************************************************************)
(* C5: a declared range that, without a leading `workspace:`, normalises   *)
(* to the empty ("any version") range is, after versionPackage, character  *)
(* for character what it was, whatever the update's version.               *)
(***************************************************************************)
C5_AnyVersionUntouched ==
    pcVersion = "done" =>
        \A s \in UpdatedSlots :
            AnyVersion(DeclaredAt(before, s)) =>
                DeclaredAt(InputManifest, s) = DeclaredAt(before, s)

C5_Witness ==
    /\ pcVersion = "done"
    /\ result.kind = "returned"
    /\ \E s, t \in UpdatedSlots :
          /\ DeclaredAt(before, s) = WORKSPACE \o <<"*">>
          /\ DeclaredAt(InputManifest, t) # DeclaredAt(before, t)

TypeIndex(type) == CHOOSE t \in 1..Len(DEPENDENCY_TYPES) : DEPENDENCY_TYPES[t] = type

UpdateIndex(name) ==
    CHOOSE i \in 1..Len(versionsToUpdate) : versionsToUpdate[i].name = name

\* s is reached by the loops before t.
Precedes(s, t) ==
    \/ TypeIndex(s[1]) < TypeIndex(t[1])
    \/ TypeIndex(s[1]) = TypeIndex(t[1]) /\ UpdateIndex(s[2]) < UpdateIndex(t[2])

Throws(s) ==
    LET r == DeclaredAt(before, s)
    IN  r # <<>> /\ r \notin PINNED /\ ~Parseable(r)

PermsOf(seq) ==
    { [i \in 1..Len(seq) |-> seq[p[i]]] :
        p \in { q \in [1..Len(seq) -> 1..Len(seq)] :
                  \A i, j \in 1..Len(seq) : i # j => q[i] # q[j] } }

HeapOf(pj) == [o \in {"obj1"} |-> pj]

OnlyBlock(pj, type) ==
    [pj EXCEPT !.deps = [t \in TypeSet |-> IF t = type THEN pj.deps[t] ELSE NoBlock]]

C10_OrderIrrelevant ==
    pcVersion = "done" =>
        /\ \A perm \in PermsOf(versionsToUpdate) :
              LET call == versionPackage(HeapOf(before), release, perm)
              IN  /\ call.result.kind = result.kind
                  /\ result.kind = "returned" => call.heap["obj1"] = InputManifest
        /\ result.kind = "returned" =>
              \A type \in TypeSet :
                  LET call == versionPackage(HeapOf(OnlyBlock(before, type)),
                                             release, versionsToUpdate)
                  IN  /\ call.result.kind = "returned"
                      /\ call.heap["obj1"].deps[type] = InputManifest.deps[type]

C10_Witness ==
    /\ pcVersion = "done"
    /\ result.kind = "returned"
    /\ Len(versionsToUpdate) = 2
    /\ \E s, t \in UpdatedSlots :
          /\ s[2] = t[2] /\ s[1] # t[1]
          /\ DeclaredAt(InputManifest, s) # DeclaredAt(before, s)
          /\ DeclaredAt(InputManifest, t) # DeclaredAt(before, t)
          /\ DeclaredAt(InputManifest, s) # DeclaredAt(InputManifest, t)

(***************************************************************************)
(* JSON values of the written config: a tag (what `typeof`, Array.isArray  *)
(* and `=== undefined` tell apart) and the value.                          *)
(***************************************************************************)
Json(t, s, b, n, a, o) == [t |-> t, s |-> s, b |-> b, n |-> n, a |-> a, o |-> o]

Undefined == Json("undefined", <<>>, FALSE, 0, <<>>, <<>>)
Null == Json("null", <<>>, FALSE, 0, <<>>, <<>>)
Bool(b) == Json("bool", <<>>, b, 0, <<>>, <<>>)
Num(n) == Json("num", <<>>, FALSE, n, <<>>, <<>>)
Str(s) == Json("str", s, FALSE, 0, <<>>, <<>>)
Arr(seq) == Json("arr", <<>>, FALSE, 0, seq, <<>>)
\* An object: its properties as a sequence of [k, val].
Obj(props) == Json("obj", <<>>, FALSE, 0, <<>>, props)

\* The strings parse compares with or fills in (lines 63-72, 148-157, 238).
PRIVATE == <<"p","r","i","v","a","t","e">>
RESTRICTED == <<"r","e","s","t","r","i","c","t","e","d">>
PUBLIC == <<"p","u","b","l","i","c">>
PATCH == <<"p","a","t","c","h">>
MINOR == <<"m","i","n","o","r">>
MASTER == <<"m","a","s","t","e","r">>
DEFAULT_CHANGELOG == <<"@","c","h","a","n","g","e","s","e","t","s","/","c","l","i","/","c","h","a","n","g","e","l","o","g">>

\* JavaScript truthiness, as `if (json.ignore)` reads it.
Truthy(x) ==
    CASE x.t \in {"undefined", "null"} -> FALSE
      [] x.t = "bool" -> x.b
      [] x.t = "num" -> x.n # 0
      [] x.t = "str" -> x.s # <<>>
      [] OTHER -> TRUE

\* An array whose members are all strings.
IsStringArray(x) ==
    x.t = "arr" /\ \A i \in 1..Len(x.a) : x.a[i].t = "str"

Strings(x) == [i \in 1..Len(x.a) |-> x.a[i].s]

\* A property of a value that is not null or undefined; a primitive has none.
Prop(x, key) ==
    IF \E i \in 1..Len(x.o) : x.o[i].k = key
    THEN x.o[CHOOSE i \in 1..Len(x.o) : x.o[i].k = key].val
    ELSE Undefined

Msg(kind, a, b) == [kind |-> kind, a |-> a, b |-> b]

(***************************************************************************)
(* micromatch: `*` matches any run of characters other than `/`.           *)
(***************************************************************************)
RECURSIVE isMatch(_, _)
isMatch(name, glob) ==
    IF glob = <<>> THEN name = <<>>
    ELSE IF Head(glob) = "*" THEN
        \/ isMatch(name, Tail(glob))
        \/ name # <<>> /\ Head(name) # "/" /\ isMatch(Tail(name), glob)
    ELSE name # <<>> /\ Head(name) = Head(glob) /\ isMatch(Tail(name), Tail(glob))

InSeq(x, seq) == \E i \in 1..Len(seq) : seq[i] = x

\* Appends the members of items that keep does not hold yet.
RECURSIVE AppendNew(_, _, _)
AppendNew(keep, items, i) ==
    IF i > Len(items) THEN keep
    ELSE AppendNew(IF InSeq(items[i], keep) THEN keep ELSE Append(keep, items[i]),
                   items, i + 1)

\* micromatch(list, patterns): the members of list some pattern matches, once each.
RECURSIVE micromatchFrom(_, _, _, _)
micromatchFrom(list, patterns, i, keep) ==
    IF i > Len(patterns) THEN keep
    ELSE micromatchFrom(list, patterns, i + 1,
            AppendNew(keep, SelectSeq(list, LAMBDA n : isMatch(n, patterns[i])), 1))

micromatch(list, patterns) == micromatchFrom(list, patterns, 1, <<>>)

(***************************************************************************)
(* normalizePackageNames, lines 86-103.                                    *)
(***************************************************************************)
\* normalizePackageNames that reports no pattern as non-existing.
normalizePackageNames_NoDiagnostics(listOfPackageNamesOrGlob, pkgNames) ==
    [matchingPackages |-> micromatch(pkgNames, listOfPackageNamesOrGlob),
     nonExistingPackages |-> <<>>]

normalizePackageNames(listOfPackageNamesOrGlob, pkgNames) ==
    [matchingPackages |-> micromatch(pkgNames, listOfPackageNamesOrGlob),
     nonExistingPackages |->
        SelectSeq(listOfPackageNamesOrGlob,
                  LAMBDA pkgNameOrGlob :
                      ~\E i \in 1..Len(pkgNames) : isMatch(pkgNames[i], pkgNameOrGlob))]

(***************************************************************************)
(* @changesets/get-dependents-graph: each package's direct dependents, in  *)
(* package order; a name that is no package has no entry.                  *)
(***************************************************************************)
PkgNamesOf(pkgs) == [i \in 1..Len(pkgs) |-> pkgs[i].name]

Dependents(pkgs, name) ==
    IF InSeq(name, PkgNamesOf(pkgs))
    THEN PkgNamesOf(SelectSeq(pkgs, LAMBDA pkg : name \in pkg.dependsOn))
    ELSE <<>>

(***************************************************************************)
(* parse, lines 122-381: the checks, in the order they run.                *)
(***************************************************************************)
\* Lines 128-145.
changelogMessages(j) ==
    IF /\ j.changelog # Undefined
       /\ j.changelog # Bool(FALSE)
       /\ j.changelog.t # "str"
       /\ ~(/\ j.changelog.t = "arr"
            /\ Len(j.changelog.a) = 2
            /\ j.changelog.a[1].t = "str")
    THEN <<Msg("changelog", <<>>, <<>>)>>
    ELSE <<>>

\* Lines 147-153.
normalizedAccess(j) ==
    IF j.access = Str(PRIVATE) THEN Str(RESTRICTED) ELSE j.access

accessWarnings(j) ==
    IF j.access = Str(PRIVATE) THEN <<"access">> ELSE <<>>

\* Lines 154-166.
accessMessages(j) ==
    IF normalizedAccess(j) \notin {Undefined, Str(RESTRICTED), Str(PUBLIC)}
    THEN <<Msg("access", <<>>, <<>>)>>
    ELSE <<>>

\* Lines 168-176.
commitMessages(j) ==
    IF j.commit # Undefined /\ j.commit.t # "bool"
    THEN <<Msg("commit", <<>>, <<>>)>>
    ELSE <<>>

\* Lines 177-185.
baseBranchMessages(j) ==
    IF j.baseBranch # Undefined /\ j.baseBranch.t # "str"
    THEN <<Msg("baseBranch", <<>>, <<>>)>>
    ELSE <<>>

\* Lines 187-195.
linkedIsWellFormed(linked) ==
    /\ linked.t = "arr"
    /\ \A i \in 1..Len(linked.a) : IsStringArray(linked.a[i])

\* `foundPkgNames.has(linkedPkgName)` that never finds the name.
AlreadyFound_Never(foundPkgNames, linkedPkgName) == FALSE

\* Line 213.
AlreadyFound(foundPkgNames, linkedPkgName) == linkedPkgName \in foundPkgNames

\* Lines 212-217: one group's resolved names against the names found so far.
RECURSIVE ScanGroup(_, _, _, _)
ScanGroup(names, i, foundPkgNames, duplicatedPkgNames) ==
    IF i > Len(names)
    THEN [found |-> foundPkgNames, duplicated |-> duplicatedPkgNames]
    ELSE ScanGroup(names, i + 1, foundPkgNames \cup {names[i]},
            IF AlreadyFound(foundPkgNames, names[i])
            THEN AppendNew(duplicatedPkgNames, <<names[i]>>, 1)
            ELSE duplicatedPkgNames)

NoMatchMessages(kind, nonExistingPackages) ==
    [i \in 1..Len(nonExistingPackages) |-> Msg(kind, nonExistingPackages[i], <<>>)]

\* Lines 205-233: the loop over the groups from group g on, then the duplicates.
RECURSIVE LinkedLoop(_, _, _, _, _, _)
LinkedLoop(groups, pkgNames, g, foundPkgNames, duplicatedPkgNames, messages) ==
    IF g > Len(groups)
    THEN messages \o [i \in 1..Len(duplicatedPkgNames) |->
                         Msg("linkedDuplicate", duplicatedPkgNames[i], <<>>)]
    ELSE LET normalized == normalizePackageNames(Strings(groups[g]), pkgNames)
             scan == ScanGroup(normalized.matchingPackages, 1,
                               foundPkgNames, duplicatedPkgNames)
         IN  LinkedLoop(groups, pkgNames, g + 1, scan.found, scan.duplicated,
                 messages \o NoMatchMessages("linkedNoMatch",
                                             normalized.nonExistingPackages))

\* Lines 186-235.
linkedMessages(j, pkgNames) ==
    IF j.linked = Undefined THEN <<>>
    ELSE IF ~linkedIsWellFormed(j.linked) THEN <<Msg("linked", <<>>, <<>>)>>
    ELSE LinkedLoop(j.linked.a, pkgNames, 1, {}, <<>>, <<>>)

\* Lines 236-247.
updateInternalDependenciesMessages(j) ==
    IF /\ j.updateInternalDependencies # Undefined
       /\ j.updateInternalDependencies \notin {Str(PATCH), Str(MINOR)}
    THEN <<Msg("updateInternalDependencies", <<>>, <<>>)>>
    ELSE <<>>

\* Lines 275-286: dependents of ignored entries that the raw list does not hold.
RECURSIVE DependentsLoop(_, _, _, _)
DependentsLoop(ignore, pkgs, i, messages) ==
    IF i > Len(ignore) THEN messages
    ELSE LET dependents == Dependents(pkgs, ignore[i])
             missing == SelectSeq(dependents, LAMBDA d : ~InSeq(d, ignore))
         IN  DependentsLoop(ignore, pkgs, i + 1,
                 messages \o [k \in 1..Len(missing) |->
                                 Msg("ignoreDependent", missing[k], ignore[i])])

\* Lines 248-288.
ignoreMessages(j, pkgs) ==
    IF ~Truthy(j.ignore) THEN <<>>
    ELSE IF ~IsStringArray(j.ignore) THEN <<Msg("ignore", <<>>, <<>>)>>
    ELSE NoMatchMessages("ignoreNoMatch",
            normalizePackageNames(Strings(j.ignore),
                                  PkgNamesOf(pkgs)).nonExistingPackages)
         \o DependentsLoop(Strings(j.ignore), pkgs, 1, <<>>)

\* Lines 291-294: destructuring null throws a TypeError.
experimentalThrows(j) == j.experimentalUnsafeOptions = Null

\* Lines 295-318.
flagMessages(j, key) ==
    LET flag == Prop(j.experimentalUnsafeOptions, key)
    IN  IF flag # Undefined /\ flag.t # "bool"
        THEN <<Msg(key, <<>>, <<>>)>>
        ELSE <<>>

experimentalMessages(j) ==
    IF j.experimentalUnsafeOptions = Undefined THEN <<>>
    ELSE flagMessages(j, "onlyUpdatePeerDependentsWhenOutOfRange")
         \o flagMessages(j, "useCalculatedVersionForSnapshots")

\* The messages pushed before line 290.
messagesBeforeExperimental(j, pkgs) ==
    changelogMessages(j) \o accessMessages(j) \o commitMessages(j)
    \o baseBranchMessages(j) \o linkedMessages(j, PkgNamesOf(pkgs))
    \o updateInternalDependenciesMessages(j) \o ignoreMessages(j, pkgs)

\* Lines 74-84.
getNormalisedChangelogOption(thing) ==
    IF thing = Bool(FALSE) THEN thing
    ELSE IF thing.t = "str" THEN Arr(<<thing, Null>>)
    ELSE thing

\* Lines 362-378.
flagValue(j, key) ==
    IF \/ j.experimentalUnsafeOptions = Undefined
       \/ Prop(j.experimentalUnsafeOptions, key) = Undefined
    THEN Bool(FALSE)
    ELSE Prop(j.experimentalUnsafeOptions, key)

\* Lines 355-358: `.filter` of a value that is no array throws a TypeError.
ignoreThrows(j) == j.ignore # Undefined /\ j.ignore.t # "arr"

\* Lines 327-379.
buildConfig(j, pkgNames) ==
    [changelog |-> getNormalisedChangelogOption(
                      IF j.changelog = Undefined
                      THEN Str(DEFAULT_CHANGELOG) ELSE j.changelog),
     access |-> IF normalizedAccess(j) = Undefined
                THEN Str(RESTRICTED) ELSE normalizedAccess(j),
     commit |-> IF j.commit = Undefined THEN Bool(FALSE) ELSE j.commit,
     linked |-> IF j.linked = Undefined THEN <<>>
                ELSE [g \in 1..Len(j.linked.a) |->
                        normalizePackageNames(Strings(j.linked.a[g]),
                                              pkgNames).matchingPackages],
     baseBranch |-> IF j.baseBranch = Undefined THEN Str(MASTER) ELSE j.baseBranch,
     updateInternalDependencies |->
        IF j.updateInternalDependencies = Undefined
        THEN Str(PATCH) ELSE j.updateInternalDependencies,
     ignore |-> IF j.ignore = Undefined THEN <<>>
                ELSE normalizePackageNames(Strings(j.ignore), pkgNames).matchingPackages,
     bumpVersionsWithWorkspaceProtocolOnly |->
        j.bumpVersionsWithWorkspaceProtocolOnly = Bool(TRUE),
     onlyUpdatePeerDependentsWhenOutOfRange |->
        flagValue(j, "onlyUpdatePeerDependentsWhenOutOfRange"),
     useCalculatedVersionForSnapshots |->
        flagValue(j, "useCalculatedVersionForSnapshots")]

NoConfig == <<>>

\* The whole of parse.  `messages` is the list as it stands when parse ends.
parse(j, pkgs) ==
    LET early == messagesBeforeExperimental(j, pkgs)
        messages == early \o experimentalMessages(j)
    IN  IF experimentalThrows(j)
        THEN [kind |-> "TypeError", config |-> NoConfig,
              messages |-> early, warnings |-> accessWarnings(j)]
        ELSE IF messages # <<>>
        THEN [kind |-> "ValidationError", config |-> NoConfig,
              messages |-> messages, warnings |-> accessWarnings(j)]
        ELSE IF ignoreThrows(j)
        THEN [kind |-> "TypeError", config |-> NoConfig,
              messages |-> messages, warnings |-> accessWarnings(j)]
        ELSE [kind |-> "config", config |-> buildConfig(j, PkgNamesOf(pkgs)),
              messages |-> messages, warnings |-> accessWarnings(j)]

(***************************************************************************)
(* Inputs of parse.                                                        *)
(***************************************************************************)
PKG_A == <<"p","k","g","-","a">>
PKG_B == <<"p","k","g","-","b">>
LIB_C == <<"l","i","b","-","c">>
PKG_GLOB == <<"p","k","g","-","*">>
NOPE == <<"n","o","p","e">>

MAJOR == <<"m","a","j","o","r">>
BOGUS == <<"b","o","g","u","s">>
YES == <<"y","e","s">>
NO == <<"n","o">>

PackageNames == <<PKG_A, PKG_B, LIB_C>>

PackageNameSet == { PackageNames[i] : i \in 1..Len(PackageNames) }

Patterns == { PKG_A, PKG_B, LIB_C, PKG_GLOB, NOPE }

\* dependent -> dependency
DepPairs == { pr \in PackageNameSet \X PackageNameSet : pr[1] # pr[2] }

GraphOf(deps) ==
    [i \in 1..Len(PackageNames) |->
        [name |-> PackageNames[i],
         dependsOn |-> { pr[2] : pr \in { q \in deps : q[1] = PackageNames[i] } }]]

Graphs == { GraphOf(deps) : deps \in { D \in SUBSET DepPairs : Cardinality(D) <= MaxDeps } }

PatternLists(n) == UNION { [1..k -> Patterns] : k \in 0..n }

StrArr(list) == Arr([i \in 1..Len(list) |-> Str(list[i])])

\* The groups a flat list makes when cut after the positions in cuts.
GroupStart(cuts, g) ==
    IF g = 1 THEN 1
    ELSE 1 + CHOOSE c \in cuts : Cardinality({ d \in cuts : d <= c }) = g - 1

GroupsOf(list, cuts) ==
    [g \in 1..(Cardinality(cuts) + 1) |->
        LET first == GroupStart(cuts, g)
            last == IF g = Cardinality(cuts) + 1 THEN Len(list)
                    ELSE GroupStart(cuts, g + 1) - 1
        IN  StrArr(SubSeq(list, first, last))]

LinkedOf(list, cuts) ==
    Arr(GroupsOf(list, { c \in cuts : c < Len(list) }))

LinkedValues ==
    { Arr(<<>>), Arr(<<Arr(<<>>)>>) }
    \cup { LinkedOf(list, cuts) :
             list \in PatternLists(MaxLinked) \ {<<>>},
             cuts \in SUBSET (1..(MaxLinked - 1)) }

MalformedLinked ==
    { Null, Str(PKG_A), Arr(<<Str(PKG_A)>>), Arr(<<Arr(<<Num(1)>>)>>) }

IgnoreValues == { StrArr(list) : list \in PatternLists(MaxIgnore) }

MalformedIgnore ==
    { Null, Bool(FALSE), Num(0), Str(<<>>), Str(PKG_A),
      Obj(<<[k |-> "name", val |-> Str(PKG_A)]>>), Arr(<<Str(PKG_A), Num(1)>>) }

Flags(a, b) ==
    Obj(<<[k |-> "onlyUpdatePeerDependentsWhenOutOfRange", val |-> a],
          [k |-> "useCalculatedVersionForSnapshots", val |-> b]>>)

DefaultJson ==
    [changelog |-> Undefined, access |-> Undefined, commit |-> Undefined,
     baseBranch |-> Undefined, linked |-> Undefined,
     updateInternalDependencies |-> Undefined, ignore |-> Undefined,
     bumpVersionsWithWorkspaceProtocolOnly |-> Undefined,
     experimentalUnsafeOptions |-> Undefined]

\* Configs that vary `linked`.
LinkedJsons ==
    { [DefaultJson EXCEPT !.linked = l] : l \in LinkedValues \cup MalformedLinked }

\* Configs that vary `ignore`.
IgnoreJsons ==
    { [DefaultJson EXCEPT !.ignore = i] : i \in IgnoreValues \cup MalformedIgnore }

\* Configs that vary every option over a few values, right and wrong.
MixedJsons ==
    [changelog : { Undefined, Bool(FALSE), Num(1) },
     access : { Undefined, Str(PRIVATE), Str(BOGUS) },
     commit : { Undefined, Str(YES) },
     baseBranch : { Undefined, Num(1) },
     linked : { Undefined, Null, Arr(<<StrArr(<<NOPE>>)>>),
                Arr(<<StrArr(<<PKG_A>>), StrArr(<<PKG_GLOB>>)>>) },
     updateInternalDependencies : { Undefined, Str(MINOR), Str(MAJOR) },
     ignore : { Undefined, Null, StrArr(<<NOPE>>), StrArr(<<PKG_A>>) },
     bumpVersionsWithWorkspaceProtocolOnly : { Undefined, Bool(TRUE) },
     experimentalUnsafeOptions :
        { Undefined, Null, Flags(Bool(TRUE), Undefined), Flags(Num(1), Str(NO)) }]

MixedGraphs == { GraphOf({}), GraphOf({<<LIB_C, PKG_A>>}) }

(***************************************************************************)
(* The state machine of parse.                                             *)
(***************************************************************************)
VersionOff ==
    /\ heap = "none" /\ release = "none" /\ versionsToUpdate = "none"
    /\ before = "none" /\ result = "none" /\ pcVersion = "off"

InitConfig ==
    /\ \/ json \in LinkedJsons /\ packages = GraphOf({})
       \/ json \in IgnoreJsons /\ packages \in Graphs
       \/ json \in MixedJsons /\ packages \in MixedGraphs
    /\ outcome = [kind |-> "none", config |-> NoConfig,
                  messages |-> <<>>, warnings |-> <<>>]
    /\ pcParse = "ready"
    /\ VersionOff

Parse ==
    /\ pcParse = "ready"
    /\ outcome' = parse(json, packages)
    /\ pcParse' = "done"
    /\ UNCHANGED <<json, packages, versionVars>>

NextConfig == Parse

SpecConfig == InitConfig /\ [][NextConfig]_vars

(***************************************************************************)
(* Vocabulary of the statements about parse.                               *)
(***************************************************************************)
Returned == pcParse = "done" /\ outcome.kind = "config"

SetOf(seq) == { seq[i] : i \in 1..Len(seq) }

\* The packages that declare a dependency on the package named p.
DirectDependents(p) ==
    { packages[i].name : i \in { k \in 1..Len(packages) : p \in packages[k].dependsOn } }

MatchesNone(pattern) == \A n \in PackageNameSet : ~isMatch(n, pattern)

\* How many messages of the kind name the pattern.
Reported(kind, pattern) ==
    Cardinality({ i \in 1..Len(outcome.messages) :
                    /\ outcome.messages[i].kind = kind
                    /\ outcome.messages[i].a = pattern })

\* How often the pattern occurs in the raw `linked`, over all groups.
LinkedOccurrences(pattern) ==
    Cardinality({ pos \in (1..Len(json.linked.a)) \X (1..MaxLinked + 1) :
                    /\ pos[2] <= Len(json.linked.a[pos[1]].a)
                    /\ json.linked.a[pos[1]].a[pos[2]].s = pattern })

IgnoreOccurrences(pattern) ==
    Cardinality({ i \in 1..Len(json.ignore.a) : json.ignore.a[i].s = pattern })

(***************************************************************************)
(* C1 (as claimed): whenever parse returns a Config, every direct          *)
(* dependent of a package in Config.ignore is in Config.ignore too, also   *)
(* when the raw `ignore` holds glob patterns.                              *)
(***************************************************************************)
C1_IgnoreClosedOnOutput ==
    Returned =>
        \A p \in SetOf(outcome.config.ignore) :
            DirectDependents(p) \subseteq SetOf(outcome.config.ignore)

(***************************************************************************)
(* C2: whenever parse returns a Config, no package name occurs twice in    *)
(* Config.linked: not in two groups and not twice in one group.            *)
(***************************************************************************)
C2_LinkedDisjoint ==
    Returned =>
        LET linked == outcome.config.linked
        IN  /\ \A g, h \in 1..Len(linked) :
                  g # h => SetOf(linked[g]) \cap SetOf(linked[h]) = {}
            /\ \A g \in 1..Len(linked) :
                  \A i, k \in 1..Len(linked[g]) : i # k => linked[g][i] # linked[g][k]

\* A Config from two non-empty groups, one of them naming a package both by a
\* glob and literally.
C2_Witness ==
    /\ Returned
    /\ Len(outcome.config.linked) = 2
    /\ \A g \in 1..2 : outcome.config.linked[g] # <<>>
    /\ \E g \in 1..2 :
          /\ InSeq(Str(PKG_GLOB), json.linked.a[g].a)
          /\ InSeq(Str(PKG_B), json.linked.a[g].a)

(***************************************************************************)
(* C6 (as claimed): parse ends by returning a Config or by raising one     *)
(* ConfigValidationError and in no other way; it returns exactly when no   *)
(* check found a violation, and the error carries every message.           *)
(***************************************************************************)
C6_AccumulatesAllViolations ==
    pcParse = "done" =>
        /\ outcome.kind \in {"config", "ValidationError"}
        /\ outcome.kind = "config" <=> outcome.messages = <<>>

(***************************************************************************)
(* C7 (as claimed): when `ignore` is present and is not an array of        *)
(* strings, parse raises ConfigValidationError with a message about the    *)
(* `ignore` option.                                                        *)
(***************************************************************************)
C7_MalformedIgnoreRejected ==
    (pcParse = "done" /\ json.ignore # Undefined /\ ~IsStringArray(json.ignore)) =>
        /\ outcome.kind = "ValidationError"
        /\ \E i \in 1..Len(outcome.messages) : outcome.messages[i].kind = "ignore"

(***************************************************************************)
(* C9: for a well-formed `linked` (and likewise `ignore`), the messages    *)
(* hold, for every pattern, one no-match message naming it per occurrence  *)
(* that matches no package and none otherwise; with any such occurrence    *)
(* parse returns no Config; and every name in the linked groups and the    *)
(* ignore list of a returned Config is the name of a package.              *)
(***************************************************************************)
C9_UnmatchedPatternsReported ==
    pcParse = "done" =>
        /\ (json.linked # Undefined /\ linkedIsWellFormed(json.linked)) =>
              \A pattern \in Patterns :
                  LET n == Reported("linkedNoMatch", pattern)
                  IN  /\ n = IF MatchesNone(pattern)
                             THEN LinkedOccurrences(pattern) ELSE 0
                      /\ n > 0 => outcome.kind # "config"
        /\ (json.ignore # Undefined /\ IsStringArray(json.ignore)) =>
              \A pattern \in Patterns :
                  LET n == Reported("ignoreNoMatch", pattern)
                  IN  /\ n = IF MatchesNone(pattern)
                             THEN IgnoreOccurrences(pattern) ELSE 0
                      /\ n > 0 => outcome.kind # "config"
        /\ outcome.kind = "config" =>
              /\ SetOf(outcome.config.ignore) \subseteq PackageNameSet
              /\ \A g \in 1..Len(outcome.config.linked) :
                    SetOf(outcome.config.linked[g]) \subseteq PackageNameSet

\* A pattern that matches nothing, given twice in `linked`, beside one that matches.
C9_Witness ==
    /\ pcParse = "done"
    /\ json.linked # Undefined /\ linkedIsWellFormed(json.linked)
    /\ LinkedOccurrences(NOPE) = 2
    /\ LinkedOccurrences(PKG_GLOB) = 1
    /\ outcome.kind = "ValidationError"
    /\ Len(outcome.messages) = 2

=============================================================================
